---- MODULE Spec2Model ----
(***************************************************************************)
(* DVM account balance bridge (frame/dvm/src/account_basic.rs).            *)
(*                                                                         *)
(* An account's balance seen by the EVM is                                 *)
(*     free_balance * POW_9 + remaining_balance                            *)
(* where free_balance lives in a Currency ledger and remaining_balance in  *)
(* the pallet's Remaining{Xor,Oxor}Balance storage map.  The module is     *)
(* instantiated once per currency (Xor, Oxor).                             *)
(*                                                                         *)
(* Integer widths are scaled down: the Balance type (u128) ranges over     *)
(* 0..U128Max, U256 over 0..U256Max and POW_9 (10^9 in the runtime) is a   *)
(* small scale with POW_9 <= U128Max + 1.  As in the runtime,              *)
(* free_balance * POW_9 + remaining_balance always fits U256, while a      *)
(* U256 balance requested by the EVM need not fit the ledger.              *)
(***************************************************************************)
EXTENDS Integers, FiniteSets, TLC

VARIABLES
    coarse,   \* [currency][account]: free balance in the Currency ledger
    rem,      \* [currency][account]: Remaining{Xor,Oxor}Balance storage
    nonce,    \* [account]: frame_system account nonce
    last,     \* the call in progress / just completed, with its arguments
    pre,      \* the stores when that call started
    first,    \* what its (first) mutate_account_basic did
    second    \* what the second mutate_account_basic of a transfer did

vars == <<coarse, rem, nonce, last, pre, first, second>>

(* ---------------------------------------------------------------------- *)
(* Widths, scale and bounds                                                *)
(* ---------------------------------------------------------------------- *)

\* the scale of the model, standing for 10^9
Scale == 2

\* oracol_support::evm::POW_9
POW_9 == Scale

\* largest value of the Balance type (u128::MAX in the runtime), scaled down
U128Max == 2

\* XorCurrency::minimum_balance() and OxorCurrency::minimum_balance()
XorMinimumBalance == 1

OxorMinimumBalance == 2

\* largest U256: wide enough for every free_balance * POW_9 + remainder, and
\* wider than that by U128Max + 1 values no ledger state composes to
U256Max == (U128Max + 1) * (POW_9 + 1) - 1

Accounts == {"a1", "a2"}

Currencies == {"Xor", "Oxor"}

U128 == 0..U128Max

U256 == 0..U256Max

\* nonce values offered in the `new` record of mutate_account_basic
NewNonces == {7}

(* ---------------------------------------------------------------------- *)
(* Integer helpers of sp_core::U256 / sp_runtime                           *)
(* ---------------------------------------------------------------------- *)

Min(a, b) == IF a < b THEN a ELSE b

\* U256::saturating_add
saturating_add(a, b) == Min(a + b, U256Max)

\* U256::saturating_sub, Balance::saturating_sub
saturating_sub(a, b) == IF a > b THEN a - b ELSE 0

\* Balance::saturating_add (u128)
saturating_add_u128(a, b) == Min(a + b, U128Max)

\* U256::checked_add(..).unwrap_or_default(): zero when the sum overflows
checked_add_or_default(a, b) == IF a + b > U256Max THEN 0 ELSE a + b

\* U256::low_u128: the low 128 bits, higher bits dropped
low_u128(x) == x % (U128Max + 1)

\* u128 -> Balance: saturated_into / unique_saturated_into
saturated_into(x) == Min(x, U128Max)

\* U256::div_mod
div_mod(x, d) == [quot |-> x \div d, rem |-> x % d]

\* (x).low_u128().unique_saturated_into(): the amount handed to the Currency
currency_amount(x) == saturated_into(low_u128(x))

(* ---------------------------------------------------------------------- *)
(* A store state: the two ledgers, the two remainder maps, the nonces      *)
(* ---------------------------------------------------------------------- *)

State == [coarse |-> coarse, rem |-> rem, nonce |-> nonce]

(* Currency capability (ledger owned by the balances pallet):              *)
(* free_balance, slash and deposit_creating saturate at zero / the maximum *)

free_balance(s, c, a) == s.coarse[c][a]

slash(s, c, a, amount) ==
    [s EXCEPT !.coarse[c][a] = saturating_sub(@, amount)]

deposit_creating(s, c, a, amount) ==
    [s EXCEPT !.coarse[c][a] = saturating_add_u128(@, amount)]

minimum_balance(c) == IF c = "Xor" THEN XorMinimumBalance ELSE OxorMinimumBalance

account_nonce(s, a) == s.nonce[a]

\* variant of remove_remaining_balance that clears the whole map of the currency
remove_remaining_balance_all(s, c, a) ==
    [s EXCEPT !.rem[c] = [x \in Accounts |-> 0]]

(* RemainBalanceOp: an absent entry reads as 0 (ValueQuery default), so an *)
(* entry is represented by its value and removal by 0.                     *)

remaining_balance(s, c, a) == s.rem[c][a]

set_remaining_balance(s, c, a, value) == [s EXCEPT !.rem[c][a] = value]

remove_remaining_balance(s, c, a) == [s EXCEPT !.rem[c][a] = 0]

\* variant of inc_remaining_balance that stores the value instead of adding it
inc_remaining_balance_set(s, c, a, value) ==
    set_remaining_balance(s, c, a, value)

inc_remaining_balance(s, c, a, value) ==
    [s EXCEPT !.rem[c][a] = saturating_add_u128(remaining_balance(s, c, a), value)]

dec_remaining_balance(s, c, a, value) ==
    [s EXCEPT !.rem[c][a] = saturating_sub(remaining_balance(s, c, a), value)]

(* ---------------------------------------------------------------------- *)
(* DvmAccountBasic                                                         *)
(* ---------------------------------------------------------------------- *)

\* variant of final_balance that leaves the remainder out
final_balance_coarse_only(balance, remaining) ==
    checked_add_or_default(balance * POW_9, 0)

\* Final balance = balance * 10^9 + remaining_balance
final_balance(balance, remaining) ==
    checked_add_or_default(balance * POW_9, remaining)

account_basic(s, c, a) ==
    [nonce   |-> account_nonce(s, a),
     balance |-> final_balance(free_balance(s, c, a), remaining_balance(s, c, a))]

\* variant of borrow_remaining that subtracts without borrowing a coarse unit
borrow_remaining_no_borrow(dvm_balance, diff_remaining_balance) ==
    saturating_sub(dvm_balance, diff_remaining_balance)

\* remainder written by the borrow branch of a decrease
borrow_remaining(dvm_balance, diff_remaining_balance) ==
    saturating_sub(saturating_add(dvm_balance, 1 * POW_9), diff_remaining_balance)

\* variant of carry_remaining that keeps the carried unit in the remainder
carry_remaining_no_carry(dvm_balance, diff_remaining_balance) ==
    dvm_balance + diff_remaining_balance

\* remainder written by the carry branch of an increase
carry_remaining(dvm_balance, diff_remaining_balance) ==
    dvm_balance + diff_remaining_balance - POW_9

\* variant of borrows that also borrows when the remainder equals the fraction
borrows_or_equal(dvm_balance, diff_remaining_balance) ==
    dvm_balance <= diff_remaining_balance

\* variant of borrows that never borrows
borrows_never(dvm_balance, diff_remaining_balance) ==
    FALSE

\* If the dvm storage < diff remaining balance, we can't subtract directly
borrows(dvm_balance, diff_remaining_balance) ==
    dvm_balance < diff_remaining_balance

\* variant of carries that keeps a remainder of exactly POW_9 without carrying
carries_strict(dvm_balance, diff_remaining_balance) ==
    dvm_balance + diff_remaining_balance > POW_9

\* If dvm storage balance + diff remaining balance is at least POW_9, carry
carries(dvm_balance, diff_remaining_balance) ==
    dvm_balance + diff_remaining_balance >= POW_9

\* the match on current.balance: ledger and remainder mutation, no cleanup.
\* branch names the arm taken, amount the value handed to slash/deposit_creating
\* and delta the coarse delta before its conversion to the Balance type.
mutate_split(s, c, a, new) ==
    LET current     == account_basic(s, c, a)
        dvm_balance == remaining_balance(s, c, a)
        nb          == new.balance
        cb          == current.balance
    IN  IF cb > nb THEN
            LET dm == div_mod(cb - nb, POW_9)
                diff_balance == dm.quot
                diff_remaining_balance == dm.rem
            IN  IF borrows(dvm_balance, diff_remaining_balance) THEN
                    [s |-> set_remaining_balance(
                              slash(s, c, a, currency_amount(diff_balance + 1)), c, a,
                              saturated_into(low_u128(
                                  borrow_remaining(dvm_balance, diff_remaining_balance)))),
                     branch |-> "dec_borrow",
                     delta  |-> diff_balance + 1,
                     amount |-> currency_amount(diff_balance + 1)]
                ELSE
                    [s |-> dec_remaining_balance(
                              slash(s, c, a, currency_amount(diff_balance)), c, a,
                              saturated_into(low_u128(diff_remaining_balance))),
                     branch |-> "dec",
                     delta  |-> diff_balance,
                     amount |-> currency_amount(diff_balance)]
        ELSE IF cb < nb THEN
            LET dm == div_mod(nb - cb, POW_9)
                diff_balance == dm.quot
                diff_remaining_balance == dm.rem
            IN  IF carries(dvm_balance, diff_remaining_balance) THEN
                    [s |-> set_remaining_balance(
                              deposit_creating(s, c, a, currency_amount(diff_balance + 1)),
                              c, a,
                              saturated_into(low_u128(
                                  carry_remaining(dvm_balance, diff_remaining_balance)))),
                     branch |-> "inc_carry",
                     delta  |-> diff_balance + 1,
                     amount |-> currency_amount(diff_balance + 1)]
                ELSE
                    [s |-> inc_remaining_balance(
                              deposit_creating(s, c, a, currency_amount(diff_balance)), c, a,
                              saturated_into(low_u128(diff_remaining_balance))),
                     branch |-> "inc",
                     delta  |-> diff_balance,
                     amount |-> currency_amount(diff_balance)]
        ELSE [s |-> s, branch |-> "noop", delta |-> 0, amount |-> 0]

\* existential deposit in EVM units
existential_deposit(c) == minimum_balance(c) * POW_9

\* variant of below_existential that is satisfied by either currency alone
below_existential_either(s, a) ==
    \/ account_basic(s, "Xor", a).balance < existential_deposit("Xor")
    \/ account_basic(s, "Oxor", a).balance < existential_deposit("Oxor")

\* the condition of the cleanup: both balances below their existential deposit
below_existential(s, a) ==
    /\ account_basic(s, "Xor", a).balance < existential_deposit("Xor")
    /\ account_basic(s, "Oxor", a).balance < existential_deposit("Oxor")

\* variant of handle_existential_deposit that removes whatever the balances are
handle_existential_deposit_always(s, a) ==
    remove_remaining_balance(remove_remaining_balance(s, "Xor", a), "Oxor", a)

\* variant of handle_existential_deposit that forgets the Oxor entry
handle_existential_deposit_xor_only(s, a) ==
    IF below_existential(s, a)
    THEN remove_remaining_balance(s, "Xor", a)
    ELSE s

\* Handle existential deposit
handle_existential_deposit(s, a) ==
    IF below_existential(s, a)
    THEN remove_remaining_balance(remove_remaining_balance(s, "Xor", a), "Oxor", a)
    ELSE s

\* what a write did, as kept in the call record: branch the arm of the match,
\* delta the coarse delta, amount the value handed to slash/deposit_creating,
\* rem the remainder entry left by the arm, cleaned whether the cleanup removed
Did(m) ==
    [branch |-> m.branch, delta |-> m.delta, amount |-> m.amount, rem |-> m.rem,
     cleaned |-> m.cleaned]

\* variant of mutate_account_basic without the early return of the equal arm
mutate_account_basic_always_cleanup(s, c, a, new) ==
    LET sp == mutate_split(s, c, a, new)
    IN  [s |-> handle_existential_deposit(sp.s, a),
         branch |-> sp.branch, delta |-> sp.delta, amount |-> sp.amount,
         rem |-> remaining_balance(sp.s, c, a),
         cleaned |-> sp.branch # "noop" /\ below_existential(sp.s, a)]

\* variant of mutate_account_basic that stores the nonce of the new record
mutate_account_basic_sets_nonce(s, c, a, new) ==
    LET sp == mutate_split(s, c, a, new)
        s1 == [sp.s EXCEPT !.nonce[a] = new.nonce]
    IN  IF sp.branch = "noop"
        THEN [s |-> s1, branch |-> "noop", delta |-> 0, amount |-> 0,
              rem |-> remaining_balance(s, c, a), cleaned |-> FALSE]
        ELSE [s |-> handle_existential_deposit(s1, a),
              branch |-> sp.branch, delta |-> sp.delta, amount |-> sp.amount,
              rem |-> remaining_balance(sp.s, c, a),
              cleaned |-> below_existential(sp.s, a)]

\* whole handler: split, then (unless the balance is unchanged) the cleanup
mutate_account_basic(s, c, a, new) ==
    LET sp == mutate_split(s, c, a, new)
    IN  IF sp.branch = "noop"
        THEN [s |-> s, branch |-> "noop", delta |-> 0, amount |-> 0,
              rem |-> remaining_balance(s, c, a), cleaned |-> FALSE]
        ELSE [s |-> handle_existential_deposit(sp.s, a),
              branch |-> sp.branch, delta |-> sp.delta, amount |-> sp.amount,
              rem |-> remaining_balance(sp.s, c, a),
              cleaned |-> below_existential(sp.s, a)]

\* the error of the ensure! in transfer
InsufficientError == "OutOfGas"

\* no write done
NoWrite == [branch |-> "none", delta |-> 0, amount |-> 0, rem |-> 0, cleaned |-> FALSE]

\* variant of transfer that debits the source and never credits the target
transfer_debit_only(s, c, source, target, value) ==
    LET source_account == account_basic(s, c, source)
    IN  IF ~(source_account.balance >= value)
        THEN [s |-> s, res |-> InsufficientError, first |-> NoWrite, second |-> NoWrite]
        ELSE
            LET m1 == mutate_account_basic(s, c, source,
                          [nonce |-> source_account.nonce,
                           balance |-> saturating_sub(source_account.balance, value)])
            IN  [s |-> m1.s, res |-> "Ok", first |-> Did(m1), second |-> NoWrite]

\* the transfer of the module instantiated for currency c
\* variant of transfer that reads the target before the debit of the source
transfer_stale_target(s, c, source, target, value) ==
    LET source_account == account_basic(s, c, source)
        target_account == account_basic(s, c, target)
    IN  IF ~(source_account.balance >= value)
        THEN [s |-> s, res |-> InsufficientError,
              first |-> NoWrite, second |-> NoWrite]
        ELSE
            LET new_source_balance == saturating_sub(source_account.balance, value)
                m1 == mutate_account_basic(s, c, source,
                          [nonce |-> source_account.nonce, balance |-> new_source_balance])
                new_target_balance == saturating_add(target_account.balance, value)
                m2 == mutate_account_basic(m1.s, c, target,
                          [nonce |-> target_account.nonce, balance |-> new_target_balance])
            IN  [s |-> m2.s, res |-> "Ok", first |-> Did(m1), second |-> Did(m2)]

transfer(s, c, source, target, value) ==
    LET source_account == account_basic(s, c, source)
    IN  IF ~(source_account.balance >= value)
        THEN [s |-> s, res |-> InsufficientError,
              first |-> NoWrite, second |-> NoWrite]
        ELSE
            LET new_source_balance == saturating_sub(source_account.balance, value)
                m1 == mutate_account_basic(s, c, source,
                          [nonce |-> source_account.nonce, balance |-> new_source_balance])
                target_account == account_basic(m1.s, c, target)
                new_target_balance == saturating_add(target_account.balance, value)
                m2 == mutate_account_basic(m1.s, c, target,
                          [nonce |-> target_account.nonce, balance |-> new_target_balance])
            IN  [s |-> m2.s, res |-> "Ok", first |-> Did(m1), second |-> Did(m2)]

(* ---------------------------------------------------------------------- *)
(* The state machine                                                       *)
(*                                                                         *)
(* The module is called synchronously, one call at a time: a call runs to  *)
(* completion and leaves its record in `last` (arguments, the state it     *)
(* started from, what it did); Return hands control back to the caller.    *)
(* ---------------------------------------------------------------------- *)

Idle ==
    [op |-> "none", cur |-> "none", addr |-> "none", target |-> "none",
     nonce |-> 0, balance |-> 0, res |-> "none"]

\* Any ledger contents (the ledgers are also changed by other pallets) and
\* any remainder below POW_9; each account has a nonce of its own.
Init ==
    /\ coarse \in [Currencies -> [Accounts -> U128]]
    /\ rem \in [Currencies -> [Accounts -> 0..(POW_9 - 1)]]
    /\ nonce = [a \in Accounts |-> IF a = "a1" THEN 1 ELSE 2]
    /\ last = Idle
    /\ pre = State
    /\ first = NoWrite
    /\ second = NoWrite

MutateAccountBasic(c, a, new) ==
    /\ last.op = "none"
    /\ \E m \in {mutate_account_basic(State, c, a, new)} :
        /\ coarse' = m.s.coarse
        /\ rem' = m.s.rem
        /\ nonce' = m.s.nonce
        /\ last' = [op |-> "mutate", cur |-> c, addr |-> a, target |-> "none",
                    nonce |-> new.nonce, balance |-> new.balance, res |-> "none"]
        /\ pre' = State
        /\ first' = Did(m)
        /\ second' = NoWrite

Transfer(c, source, target, value) ==
    /\ last.op = "none"
    /\ \E t \in {transfer(State, c, source, target, value)} :
        /\ coarse' = t.s.coarse
        /\ rem' = t.s.rem
        /\ nonce' = t.s.nonce
        /\ last' = [op |-> "transfer", cur |-> c, addr |-> source, target |-> target,
                    nonce |-> 0, balance |-> value, res |-> t.res]
        /\ pre' = State
        /\ first' = t.first
        /\ second' = t.second

\* the call returns; the stores keep what the call left
Return ==
    /\ last.op # "none"
    /\ last' = Idle
    /\ pre' = State
    /\ first' = NoWrite
    /\ second' = NoWrite
    /\ UNCHANGED <<coarse, rem, nonce>>

Next ==
    \/ \E c \in Currencies, a \in Accounts, n \in NewNonces, nb \in U256 :
           MutateAccountBasic(c, a, [nonce |-> n, balance |-> nb])
    \/ \E c \in Currencies, source \in Accounts, target \in Accounts, value \in U256 :
           Transfer(c, source, target, value)
    \/ Return

Spec == Init /\ [][Next]_vars

(* The same calls from stores with no remainder entry yet (the storage maps *)
(* are empty at genesis; an absent entry reads as 0).                      *)

InitFresh ==
    /\ coarse \in [Currencies -> [Accounts -> U128]]
    /\ rem = [c \in Currencies |-> [a \in Accounts |-> 0]]
    /\ nonce = [a \in Accounts |-> IF a = "a1" THEN 1 ELSE 2]
    /\ last = Idle
    /\ pre = State
    /\ first = NoWrite
    /\ second = NoWrite

SpecFresh == InitFresh /\ [][Next]_vars

(* Reads alone, from every content of the stores: a remainder entry holds  *)
(* any value of the Balance type (set_remaining_balance stores what it is  *)
(* given).                                                                 *)

InitRead ==
    /\ coarse \in [Currencies -> [Accounts -> U128]]
    /\ rem \in [Currencies -> [Accounts -> U128]]
    /\ nonce = [a \in Accounts |-> IF a = "a1" THEN 1 ELSE 2]
    /\ last = Idle
    /\ pre = State
    /\ first = NoWrite
    /\ second = NoWrite

AccountBasic(c, a) ==
    /\ last.op = "none"
    /\ \E r \in {account_basic(State, c, a)} :
        last' = [op |-> "read", cur |-> c, addr |-> a, target |-> "none",
                 nonce |-> r.nonce, balance |-> r.balance, res |-> "none"]
    /\ pre' = State
    /\ UNCHANGED <<coarse, rem, nonce, first, second>>

NextRead ==
    \/ \E c \in Currencies, a \in Accounts : AccountBasic(c, a)
    \/ Return

SpecRead == InitRead /\ [][NextRead]_vars

(* ---------------------------------------------------------------------- *)
(* Properties                                                              *)
(* ---------------------------------------------------------------------- *)

\* the address, currency and requested balance of the completed call
Addr == last.addr

Cur == last.cur

OtherCur == IF last.cur = "Xor" THEN "Oxor" ELSE "Xor"

\* the balance account_basic returned when the call started
BalanceBefore(c, a) == pre.coarse[c][a] * POW_9 + pre.rem[c][a]

\* the largest balance a ledger state composes to
MaxComposed == U128Max * POW_9 + (POW_9 - 1)

\* a mutate_account_basic call that changed the balance has completed
Changed == last.op = "mutate" /\ last.balance # BalanceBefore(Cur, Addr)

\* C1 (as stated): after the slash/deposit and the remainder update of a
\* mutate_account_basic whose requested balance nb differs from the current one,
\* coarse * POW_9 + remainder equals nb, for every nb.
C1_ConservationAnyBalance ==
    Changed => coarse[Cur][Addr] * POW_9 + first.rem = last.balance

\* C1 (amended): the same, for every requested balance whose whole part fits the
\* ledger (nb <= U128Max * POW_9 + POW_9 - 1): the split yields exactly nb; a
\* decrease takes a slashing arm and an increase a depositing arm.
C1_ConservationRepresentable ==
    (Changed /\ last.balance <= MaxComposed) =>
        /\ coarse[Cur][Addr] * POW_9 + first.rem = last.balance
        /\ last.balance < BalanceBefore(Cur, Addr)
               <=> first.branch \in {"dec", "dec_borrow"}
        /\ last.balance > BalanceBefore(Cur, Addr)
               <=> first.branch \in {"inc", "inc_carry"}

\* a decrease that borrowed a coarse unit, and one whose cleanup then dropped
\* the remainder the split had left
C1_Witness ==
    /\ Changed
    /\ last.balance <= MaxComposed
    /\ first.branch = "dec_borrow"
    /\ first.rem > 0
    /\ first.cleaned

\* C2: every remainder entry of both currencies stays in 0..POW_9-1 after any
\* sequence of mutate_account_basic and transfer calls.
C2_RemainderBound ==
    \A c \in Currencies : \A a \in Accounts : rem[c][a] >= 0 /\ rem[c][a] < POW_9

\* a transfer whose debit borrowed and whose credit carried has completed and
\* left a remainder behind
C2_Witness ==
    /\ last.op = "transfer"
    /\ last.res = "Ok"
    /\ first.branch = "dec_borrow"
    /\ second.branch = "inc_carry"
    /\ \E c \in Currencies : \E a \in Accounts : rem[c][a] > 0

\* C3 (as stated): after a complete mutate_account_basic(address, {nonce, nb}),
\* account_basic(address) returns balance nb, for every nb.
C3_ReadAfterWriteAnyBalance ==
    last.op = "mutate" => account_basic(State, Cur, Addr).balance = last.balance

\* C3 (amended): for every nb that fits the ledger, account_basic then returns
\* nb, except that when the write changed the balance and left both currencies
\* below their existential deposit the remainder is gone and it returns
\* nb - nb mod POW_9.
C3_ReadAfterWrite ==
    (last.op = "mutate" /\ last.balance <= MaxComposed) =>
        account_basic(State, Cur, Addr).balance =
            IF first.cleaned THEN last.balance - (last.balance % POW_9)
                             ELSE last.balance

\* a write that changed the balance, left a remainder and was not cleaned up
C3_Witness ==
    /\ Changed
    /\ last.balance <= MaxComposed
    /\ last.balance % POW_9 # 0
    /\ ~first.cleaned
    /\ account_basic(State, Cur, Addr).balance = last.balance

\* C4: mutate_account_basic with the current balance writes nothing: both
\* ledgers and both remainder maps are as before and the cleanup is not run.
C4_NoOpWrite ==
    (last.op = "mutate" /\ last.balance = BalanceBefore(Cur, Addr)) =>
        /\ coarse = pre.coarse
        /\ rem = pre.rem
        /\ first.branch = "noop"
        /\ ~first.cleaned

\* a no-op write on an account below both existential deposits that holds
\* remainder entries in both currencies
C4_Witness ==
    /\ last.op = "mutate"
    /\ last.balance = BalanceBefore(Cur, Addr)
    /\ BalanceBefore("Xor", Addr) < XorMinimumBalance * POW_9
    /\ BalanceBefore("Oxor", Addr) < OxorMinimumBalance * POW_9
    /\ pre.rem["Xor"][Addr] > 0
    /\ pre.rem["Oxor"][Addr] > 0

\* the remainder of currency c at the completed call's address after the split
SplitRem(c) == IF c = Cur THEN first.rem ELSE pre.rem[c][Addr]

\* both balances of the address are below the existential deposits after the split
SplitBelowBoth ==
    /\ coarse["Xor"][Addr] * POW_9 + SplitRem("Xor") < XorMinimumBalance * POW_9
    /\ coarse["Oxor"][Addr] * POW_9 + SplitRem("Oxor") < OxorMinimumBalance * POW_9

\* C5: after a mutate_account_basic that changed the balance, if both balances
\* of the account are strictly below their existential deposit the remainder
\* entries of both currencies are removed; otherwise neither is removed and both
\* keep the value the split left.
C5_CleanupRule ==
    Changed =>
        IF SplitBelowBoth
        THEN rem["Xor"][Addr] = 0 /\ rem["Oxor"][Addr] = 0 /\ first.cleaned
        ELSE /\ rem["Xor"][Addr] = SplitRem("Xor")
             /\ rem["Oxor"][Addr] = SplitRem("Oxor")
             /\ ~first.cleaned

\* a write through one currency whose cleanup removed the other currency's entry
C5_Witness ==
    /\ Changed
    /\ SplitBelowBoth
    /\ pre.rem[OtherCur][Addr] > 0
    /\ rem[OtherCur][Addr] = 0

\* the balance account_basic returns now
BalanceNow(c, a) == account_basic(State, c, a).balance

\* a transfer call has completed
Transferred == last.op = "transfer"

\* C6: a transfer of more than the source's balance fails with InsufficientFunds
\* and changes no ledger balance and no remainder entry.
C6_InsufficientFunds ==
    (Transferred /\ BalanceBefore(Cur, Addr) < last.balance) =>
        /\ last.res = "InsufficientFunds"
        /\ coarse = pre.coarse
        /\ rem = pre.rem

\* C6, the part the code keeps: the failing transfer returns the error of its
\* ensure! and leaves ledgers, remainders and nonces as they were.
C6_FailureMutatesNothing ==
    (Transferred /\ BalanceBefore(Cur, Addr) < last.balance) =>
        /\ last.res = InsufficientError
        /\ coarse = pre.coarse
        /\ rem = pre.rem
        /\ nonce = pre.nonce

\* x with its sub-unit part dropped when the cleanup removed the remainder
Kept(x, cleaned) == IF cleaned THEN x - (x % POW_9) ELSE x

\* C7 (as stated): a transfer between distinct accounts of an amount within the
\* source's balance succeeds, the source ends at its old balance minus the
\* amount and the target at its old balance plus the amount.
C7_TransferMovesAmount ==
    (Transferred /\ Addr # last.target /\ last.balance <= BalanceBefore(Cur, Addr)) =>
        /\ last.res = "Ok"
        /\ BalanceNow(Cur, Addr) = BalanceBefore(Cur, Addr) - last.balance
        /\ BalanceNow(Cur, last.target) = BalanceBefore(Cur, last.target) + last.balance
        /\ BalanceNow(Cur, Addr) + BalanceNow(Cur, last.target)
               = BalanceBefore(Cur, Addr) + BalanceBefore(Cur, last.target)

\* C7 (amended): such a transfer succeeds and the source ends at old - amount;
\* when the target's new balance fits the ledger the target ends at
\* old + amount; either end balance is less its sub-unit part (mod POW_9) if the
\* write left that account below both existential deposits, and the sum of the
\* two is unchanged when neither write was cleaned up.
C7_TransferMovesAmountKept ==
    (Transferred /\ Addr # last.target /\ last.balance <= BalanceBefore(Cur, Addr)) =>
        /\ last.res = "Ok"
        /\ BalanceNow(Cur, Addr)
               = Kept(BalanceBefore(Cur, Addr) - last.balance, first.cleaned)
        /\ BalanceBefore(Cur, last.target) + last.balance <= MaxComposed =>
            /\ BalanceNow(Cur, last.target)
                   = Kept(BalanceBefore(Cur, last.target) + last.balance, second.cleaned)
            /\ (~first.cleaned /\ ~second.cleaned) =>
                   BalanceNow(Cur, Addr) + BalanceNow(Cur, last.target)
                       = BalanceBefore(Cur, Addr) + BalanceBefore(Cur, last.target)

\* the whole balance of the source, with a sub-unit part, moved to an account
\* that keeps it
C7_Witness ==
    /\ Transferred
    /\ Addr # last.target
    /\ last.res = "Ok"
    /\ last.balance = BalanceBefore(Cur, Addr)
    /\ last.balance % POW_9 # 0
    /\ BalanceNow(Cur, Addr) = 0
    /\ BalanceNow(Cur, last.target) = BalanceBefore(Cur, last.target) + last.balance

\* C8: no call changes the nonce of any account, whatever nonce the new record
\* carries, and account_basic returns the account's nonce.
C8_NonceUntouched ==
    /\ last.op # "none" => nonce = pre.nonce
    /\ \A c \in Currencies : \A a \in Accounts :
           account_basic(State, c, a).nonce = nonce[a]

\* a balance-changing write whose record carried a nonce other than the account's
C8_Witness ==
    /\ Changed
    /\ last.nonce # pre.nonce[Addr]
    /\ account_basic(State, Cur, Addr).nonce = pre.nonce[Addr]

\* C9: mutate_account_basic on an address through one currency changes nothing
\* of any other account and not the other currency's ledger balance of the
\* address; the other currency's remainder entry of the address changes only by
\* being removed in the cleanup.
C9_WriteFrame ==
    last.op = "mutate" =>
        /\ \A c \in Currencies : \A a \in Accounts \ {Addr} :
               coarse[c][a] = pre.coarse[c][a] /\ rem[c][a] = pre.rem[c][a]
        /\ \A a \in Accounts \ {Addr} : nonce[a] = pre.nonce[a]
        /\ coarse[OtherCur][Addr] = pre.coarse[OtherCur][Addr]
        /\ \/ rem[OtherCur][Addr] = pre.rem[OtherCur][Addr]
           \/ first.cleaned /\ rem[OtherCur][Addr] = 0

\* a cleaned-up write next to an account that holds balances and remainders
C9_Witness ==
    /\ Changed
    /\ first.cleaned
    /\ rem[OtherCur][Addr] # pre.rem[OtherCur][Addr]
    /\ \E a \in Accounts \ {Addr} : \A c \in Currencies :
           pre.coarse[c][a] > 0 /\ pre.rem[c][a] > 0

\* C10: a coarse delta that does not fit the Balance type reaches
\* slash/deposit_creating as the saturated maximum of that type.
C10_OverflowClamped ==
    (last.op = "mutate" /\ first.delta > U128Max) => first.amount = U128Max

\* C11: account_basic returns free_balance * POW_9 + remainder for every free
\* balance and every remainder of the Balance type, saturated at the largest
\* U256; the sum of such operands never exceeds the largest U256.
C11_ReadComposition ==
    last.op = "read" =>
        /\ last.balance = Min(coarse[Cur][Addr] * POW_9 + rem[Cur][Addr], U256Max)
        /\ coarse[Cur][Addr] * POW_9 + rem[Cur][Addr] <= U256Max
        /\ last.balance = coarse[Cur][Addr] * POW_9 + rem[Cur][Addr]

\* a read of the largest ledger balance with the largest remainder entry
C11_Witness ==
    /\ last.op = "read"
    /\ coarse[Cur][Addr] = U128Max
    /\ rem[Cur][Addr] = U128Max
    /\ rem[Cur][Addr] >= POW_9
    /\ last.balance = U128Max * POW_9 + U128Max

\* a mutate_account_basic call that asked for more than the current balance
Increased == last.op = "mutate" /\ last.balance > BalanceBefore(Cur, Addr)

\* (whole, frac) of the requested increase
IncDiff == div_mod(last.balance - BalanceBefore(Cur, Addr), POW_9)

Decreased == last.op = "mutate" /\ last.balance < BalanceBefore(Cur, Addr)

\* (whole, frac) of the requested decrease
DecDiff == div_mod(BalanceBefore(Cur, Addr) - last.balance, POW_9)

\* C13: a decrease by X = whole * POW_9 + frac slashes whole + 1 units and
\* leaves remainder_before + POW_9 - frac exactly when remainder_before < frac,
\* otherwise it slashes whole units and leaves remainder_before - frac.
C13_BorrowOnDecrease ==
    Decreased =>
        IF pre.rem[Cur][Addr] < DecDiff.rem
        THEN /\ first.branch = "dec_borrow"
             /\ first.amount = DecDiff.quot + 1
             /\ coarse[Cur][Addr] = pre.coarse[Cur][Addr] - (DecDiff.quot + 1)
             /\ first.rem = pre.rem[Cur][Addr] + POW_9 - DecDiff.rem
        ELSE /\ first.branch = "dec"
             /\ first.amount = DecDiff.quot
             /\ coarse[Cur][Addr] = pre.coarse[Cur][Addr] - DecDiff.quot
             /\ first.rem = pre.rem[Cur][Addr] - DecDiff.rem

\* a decrease by 1 from remainder 0: one unit is borrowed and the remainder
\* ends at POW_9 - 1
C13_Witness ==
    /\ Decreased
    /\ pre.rem[Cur][Addr] = 0
    /\ BalanceBefore(Cur, Addr) - last.balance = 1
    /\ first.branch = "dec_borrow"
    /\ coarse[Cur][Addr] = pre.coarse[Cur][Addr] - 1
    /\ first.rem = POW_9 - 1

\* a write w that started from ledger balance c0 and remainder r0 and moved the
\* balance by a difference with fraction frac hit none of its clamps: a
\* decrease slashes no more than the ledger holds and hands over the delta
\* unconverted, dec_remaining_balance gets no more than the stored remainder,
\* the saturating_add and saturating_sub of the borrow branch work on values in
\* range, and inc_remaining_balance stays within the Balance type.
ClampFree(w, c0, r0, frac) ==
    /\ w.branch \in {"dec", "dec_borrow"} => (w.delta <= c0 /\ w.amount = w.delta)
    /\ w.branch = "dec" => (frac <= r0 /\ w.rem = r0 - frac)
    /\ w.branch = "dec_borrow" =>
           /\ r0 + 1 * POW_9 <= U256Max
           /\ frac <= r0 + 1 * POW_9
           /\ r0 + 1 * POW_9 - frac <= U128Max
           /\ w.rem = r0 + 1 * POW_9 - frac
    /\ w.branch = "inc" => (r0 + frac <= U128Max /\ w.rem = r0 + frac)

\* ledger balance, remainder and composed balance of account a between the two
\* writes of a transfer
MidCoarse(a) ==
    IF a = Addr THEN pre.coarse[Cur][a] - Min(first.amount, pre.coarse[Cur][a])
    ELSE pre.coarse[Cur][a]

MidRem(a) ==
    IF a = Addr THEN (IF first.cleaned THEN 0 ELSE first.rem) ELSE pre.rem[Cur][a]

MidBalance(a) == MidCoarse(a) * POW_9 + MidRem(a)

\* the fraction of the difference between two balances
FracOf(x, y) == (IF x > y THEN x - y ELSE y - x) % POW_9

\* C14: in every state reached from remainders < POW_9 by mutate_account_basic
\* and transfer, no write hits a defensive clamp: a decrease slashes at most the
\* ledger balance (whole, or whole + 1 when borrowing), dec_remaining_balance is
\* given at most the stored remainder, inc_remaining_balance does not saturate,
\* and the saturating_add / saturating_sub of the borrow branch do not clamp.
C14_ClampsNeverHit ==
    /\ last.op = "mutate" =>
           ClampFree(first, pre.coarse[Cur][Addr], pre.rem[Cur][Addr],
                     FracOf(last.balance, BalanceBefore(Cur, Addr)))
    /\ (Transferred /\ last.res = "Ok") =>
           /\ ClampFree(first, pre.coarse[Cur][Addr], pre.rem[Cur][Addr],
                        last.balance % POW_9)
           /\ ClampFree(second, MidCoarse(last.target), MidRem(last.target),
                        FracOf(saturating_add(MidBalance(last.target), last.balance),
                               MidBalance(last.target)))

\* a transfer whose debit borrows and slashes the whole ledger balance of the
\* source, and whose credit adds to the target's remainder without a carry
C14_Witness ==
    /\ Transferred
    /\ last.res = "Ok"
    /\ first.branch = "dec_borrow"
    /\ pre.coarse[Cur][Addr] > 0
    /\ first.delta = pre.coarse[Cur][Addr]
    /\ coarse[Cur][Addr] = 0
    /\ second.branch = "inc"
    /\ second.rem > 0

\* C15: starting with no remainder entries and changing the stores only through
\* mutate_account_basic and transfer, in every state between calls an account
\* whose composed balance is strictly below the existential deposit in both
\* currencies has remainder 0 in both currencies.
C15_NoStaleRemainder ==
    \A a \in Accounts :
        below_existential(State, a) => (rem["Xor"][a] = 0 /\ rem["Oxor"][a] = 0)

\* a write that left a remainder and dropped the account below both existential
\* deposits while the other currency held a remainder too: both were removed
C15_Witness ==
    /\ last.op = "mutate"
    /\ first.cleaned
    /\ first.rem > 0
    /\ pre.rem[OtherCur][Addr] > 0
    /\ below_existential(State, Addr)
    /\ rem["Xor"][Addr] = 0
    /\ rem["Oxor"][Addr] = 0

\* a successful transfer whose source and target are the same address
SelfTransferred == Transferred /\ last.res = "Ok" /\ last.target = Addr

\* C16 (as stated): a successful self-transfer leaves the address's composed
\* balance, ledger balance and remainder as they were before the call.
C16_SelfTransferNeutral ==
    SelfTransferred =>
        /\ BalanceNow(Cur, Addr) = BalanceBefore(Cur, Addr)
        /\ coarse[Cur][Addr] = pre.coarse[Cur][Addr]
        /\ rem[Cur][Addr] = pre.rem[Cur][Addr]

\* C16 (amended): a successful self-transfer leaves every ledger balance and
\* remainder as before the call unless its debit left the address below both
\* existential deposits; then the cleanup of the debit removes the remainder
\* before the credit reads the balance, and the address ends at the debited
\* balance without its fraction plus the value, again without its fraction if
\* the credit is cleaned up too.
C16_SelfTransferNeutralUnlessCleaned ==
    SelfTransferred =>
        /\ ~first.cleaned =>
               /\ coarse = pre.coarse
               /\ rem = pre.rem
               /\ BalanceNow(Cur, Addr) = BalanceBefore(Cur, Addr)
        /\ first.cleaned =>
               /\ BalanceNow(Cur, Addr) =
                      Kept(Kept(BalanceBefore(Cur, Addr) - last.balance, TRUE)
                               + last.balance, second.cleaned)
               /\ rem[OtherCur][Addr] = 0

\* a self-transfer whose debit borrows and whose credit carries, without any
\* cleanup: the stores end as they started
C16_Witness ==
    /\ SelfTransferred
    /\ last.balance > 0
    /\ first.branch = "dec_borrow"
    /\ ~first.cleaned
    /\ second.branch = "inc_carry"
    /\ coarse = pre.coarse
    /\ rem = pre.rem

\* the `new` record of the last mutate_account_basic call
NewRecord == [nonce |-> last.nonce, balance |-> last.balance]

\* C17: applying mutate_account_basic(address, new) again right after it was
\* applied leaves both ledgers and both remainder stores as the first
\* application left them, for every state and every new record.
C17_WriteIdempotent ==
    last.op = "mutate" =>
        \E again \in {mutate_account_basic(State, Cur, Addr, NewRecord)} :
            /\ again.s.coarse = coarse
            /\ again.s.rem = rem

\* a write that changed the balance and was cleaned up, so that the balance
\* read back differs from the requested one and the second application is not
\* the equal arm: it moves the remainder again and is cleaned up again
C17_Witness ==
    /\ Changed
    /\ first.cleaned
    /\ first.rem > 0
    /\ BalanceNow(Cur, Addr) # last.balance
    /\ mutate_account_basic(State, Cur, Addr, NewRecord).branch = "inc"
    /\ mutate_account_basic(State, Cur, Addr, NewRecord).cleaned
    /\ mutate_account_basic(State, Cur, Addr, NewRecord).s.rem = rem

====
